---- MODULE Spec2Model ----
(***************************************************************************)
(* A model of assignment_api.py: the bold-boundary section segmenter, the  *)
(* positional-window field extractor (populate_chart), the sentence        *)
(* segmenter and classifier, and Chart.age.                                *)
(*                                                                         *)
(* A Python str is modelled as a sequence of one-character strings, so     *)
(* that lower(), strip(), replace(), startswith(), "in", split(), join()   *)
(* and the regular expression of the sentence segmenter are computed       *)
(* character by character.  None is the empty tuple, a present value v is  *)
(* the one-element tuple <<v>>.                                            *)
(***************************************************************************)
EXTENDS Integers, Sequences, FiniteSets, TLC

VARIABLES
    pc,               \* position of the running function
    \* split_to_sections
    words,            \* its argument
    k,                \* number of words the for loop has consumed
    sections,         \* the local 'sections'
    current_section,  \* the local 'current_section'
    \* populate_chart
    page_to_words,    \* its argument, as the sequence of values of items()
    p,                \* number of pages the outer loop has entered
    i,                \* number of words of page p the inner loop has consumed
    name,             \* the local 'name'
    dob,              \* the local 'dob'
    has_valid_ekg,    \* the local 'has_valid_ekg'
    chart,            \* the returned Chart
    \* extract_sentences_from_pdf
    pdf_pages,        \* page.extract_text() of each page of pdf.pages
    pg,               \* number of pages the loop has consumed
    sentences,        \* the local 'sentences'; the argument of display_sentences
    \* display_sentences
    extra_words,      \* its second argument
    sn,               \* number of sentences the outer loop has consumed
    untried,          \* the titles the inner loop has not tried on sentence sn
    numbered_count,   \* the local 'numbered_count'
    printed,          \* the lines printed so far
    \* Chart.age
    self_dob,         \* self.dob
    today,            \* datetime.today()
    age               \* the returned age

sectionVars == <<words, k, sections, current_section>>
chartVars == <<page_to_words, p, i, name, dob, has_valid_ekg, chart>>
extractVars == <<pdf_pages, pg>>
displayVars == <<extra_words, sn, untried, numbered_count, printed>>
ageVars == <<self_dob, today, age>>

vars == <<pc, sectionVars, chartVars, extractVars, sentences, displayVars, ageVars>>

----------------------------------------------------------------------------
(* Bounds of the model *)

MaxWords == 4        \* longest argument of split_to_sections
MaxPages == 2        \* most pages of a document
MaxTokens == 4       \* most words of a document, all pages together
MaxPdfPages == 2     \* most pages of a pdf given to extract_sentences_from_pdf
MaxChars == 6        \* most characters of the text of a pdf, all pages together
MaxSentences == 2    \* most sentences given to display_sentences
MaxExtraWords == 2   \* most words given to display_sentences

----------------------------------------------------------------------------
(* Python values *)

None == <<>>
Some(v) == <<v>>

BoundedSeq(S, n) == UNION {[1..m -> S] : m \in 0..n}

UpperChars == <<"A","B","C","D","E","F","G","H","I","J","K","L","M",
                "N","O","P","Q","R","S","T","U","V","W","X","Y","Z">>
LowerChars == <<"a","b","c","d","e","f","g","h","i","j","k","l","m",
                "n","o","p","q","r","s","t","u","v","w","x","y","z">>
DigitChars == <<"0","1","2","3","4","5","6","7","8","9">>

Punctuation == {" ", "\n", "\t", "\r", ".", "?", ":", "/", "-", ","}

\* the characters of the modelled texts
Chars ==
    {UpperChars[n] : n \in DOMAIN UpperChars}
        \cup {LowerChars[n] : n \in DOMAIN LowerChars}
        \cup {DigitChars[n] : n \in DOMAIN DigitChars}
        \cup Punctuation

IsUpper(c) == \E n \in DOMAIN UpperChars : UpperChars[n] = c
IsLower(c) == \E n \in DOMAIN LowerChars : LowerChars[n] = c
IsDigit(c) == \E n \in DOMAIN DigitChars : DigitChars[n] = c

\* str.lower() on one character
LowerChar ==
    [c \in Chars |->
        IF IsUpper(c)
        THEN LowerChars[CHOOSE n \in DOMAIN UpperChars : UpperChars[n] = c]
        ELSE c]

\* str.lower()
Lower(s) == [n \in DOMAIN s |-> LowerChar[s[n]]]

\* the characters str.strip() and \s treat as whitespace
IsSpace(c) == c \in {" ", "\n", "\t", "\r"}

\* 'sub in s' on strings
Contains(s, sub) ==
    \E n \in 0..(Len(s) - Len(sub)) : SubSeq(s, n + 1, n + Len(sub)) = sub

\* s.startswith(prefix)
StartsWith(s, prefix) ==
    Len(prefix) <= Len(s) /\ SubSeq(s, 1, Len(prefix)) = prefix

\* s.replace(' ', '')
RECURSIVE RemoveSpaces(_)
RemoveSpaces(s) ==
    IF s = <<>> THEN <<>>
    ELSE IF Head(s) = " " THEN RemoveSpaces(Tail(s))
    ELSE <<Head(s)>> \o RemoveSpaces(Tail(s))

\* s.strip()
RECURSIVE LStrip(_)
LStrip(s) ==
    IF s # <<>> /\ IsSpace(Head(s)) THEN LStrip(Tail(s)) ELSE s

RECURSIVE RStrip(_)
RStrip(s) ==
    IF s # <<>> /\ IsSpace(s[Len(s)]) THEN RStrip(SubSeq(s, 1, Len(s) - 1)) ELSE s

Strip(s) == LStrip(RStrip(s))

\* " ".join(parts)
RECURSIVE Join(_)
Join(parts) ==
    IF parts = <<>> THEN <<>>
    ELSE IF Len(parts) = 1 THEN parts[1]
    ELSE parts[1] \o <<" ">> \o Join(Tail(parts))

----------------------------------------------------------------------------
(* ExtraTextualWord and split_to_sections *)

\* ExtraTextualWord.is_bold
is_bold(word) == Contains(word.fontname, <<"B","o","l","d">>)

FontNames ==
    { <<"A","-","B","o","l","d">>,      \* bold
      <<"b","o","l","d">>,              \* not bold: the test is case-sensitive
      <<"A">> }                         \* not bold
WordTexts == { <<"t">>, <<"u">> }

ExtraWords == [text : WordTexts, fontname : FontNames]

\* SplitStep without the test of line 129: the open section is closed even
\* when it is empty
SplitStepM ==
    /\ pc = "split"
    /\ k < Len(words)
    /\ LET word == words[k + 1] IN
         IF is_bold(word)
         THEN /\ sections' = Append(sections, current_section)
              /\ current_section' = <<word>>
         ELSE /\ current_section' = Append(current_section, word)
              /\ sections' = sections
    /\ k' = k + 1
    /\ UNCHANGED <<pc, words, chartVars, extractVars, sentences, displayVars, ageVars>>

\* lines 127-133: one iteration of 'for word in words'
SplitStep ==
    /\ pc = "split"
    /\ k < Len(words)
    /\ LET word == words[k + 1] IN
         IF is_bold(word)
         THEN /\ sections' = (IF current_section # <<>>
                              THEN Append(sections, current_section)
                              ELSE sections)
              /\ current_section' = <<word>>
         ELSE /\ current_section' = Append(current_section, word)
              /\ sections' = sections
    /\ k' = k + 1
    /\ UNCHANGED <<pc, words, chartVars, extractVars, sentences, displayVars, ageVars>>

\* SplitReturn without lines 135-136: the open section is never closed
SplitReturnM ==
    /\ pc = "split"
    /\ k = Len(words)
    /\ sections' = sections
    /\ pc' = "split_done"
    /\ UNCHANGED <<words, k, current_section, chartVars, extractVars, sentences, displayVars, ageVars>>

\* lines 135-138: the end of the loop
SplitReturn ==
    /\ pc = "split"
    /\ k = Len(words)
    /\ sections' = (IF current_section # <<>>
                    THEN Append(sections, current_section)
                    ELSE sections)
    /\ pc' = "split_done"
    /\ UNCHANGED <<words, k, current_section, chartVars, extractVars, sentences, displayVars, ageVars>>

----------------------------------------------------------------------------
(* datetime.strptime(dob_text, "%m/%d/%Y") *)

DigitVal(c) == (CHOOSE n \in DOMAIN DigitChars : DigitChars[n] = c) - 1

\* the fields of s between the '/' characters
RECURSIVE SplitSlash(_)
SplitSlash(s) ==
    IF \A n \in DOMAIN s : s[n] # "/" THEN <<s>>
    ELSE LET n == CHOOSE n \in DOMAIN s :
                      s[n] = "/" /\ \A m \in 1..(n - 1) : s[m] # "/"
         IN  <<SubSeq(s, 1, n - 1)>> \o SplitSlash(SubSeq(s, n + 1, Len(s)))

\* %m: 1[0-2]|0[1-9]|[1-9]
MonthField(f) ==
    \/ Len(f) = 2 /\ f[1] = "1" /\ f[2] \in {"0", "1", "2"}
    \/ Len(f) = 2 /\ f[1] = "0" /\ IsDigit(f[2]) /\ f[2] # "0"
    \/ Len(f) = 1 /\ IsDigit(f[1]) /\ f[1] # "0"

\* %d: 3[0-1]|[1-2]\d|0[1-9]|[1-9]| [1-9]
DayField(f) ==
    \/ Len(f) = 2 /\ f[1] = "3" /\ f[2] \in {"0", "1"}
    \/ Len(f) = 2 /\ f[1] \in {"1", "2"} /\ IsDigit(f[2])
    \/ Len(f) = 2 /\ f[1] \in {"0", " "} /\ IsDigit(f[2]) /\ f[2] # "0"
    \/ Len(f) = 1 /\ IsDigit(f[1]) /\ f[1] # "0"

\* %Y: \d\d\d\d
YearField(f) == Len(f) = 4 /\ \A n \in 1..4 : IsDigit(f[n])

RECURSIVE Number(_)
Number(f) ==
    IF f = <<>> THEN 0
    ELSE IF f[Len(f)] = " " THEN Number(SubSeq(f, 1, Len(f) - 1))
    ELSE 10 * Number(SubSeq(f, 1, Len(f) - 1)) + DigitVal(f[Len(f)])

IsLeap(y) == (y % 4 = 0 /\ y % 100 # 0) \/ y % 400 = 0

DaysInMonth(y, m) ==
    IF m = 2 THEN (IF IsLeap(y) THEN 29 ELSE 28)
    ELSE IF m \in {4, 6, 9, 11} THEN 30
    ELSE 31

\* the parsed date <<year, month, day>>, or None where strptime raises ValueError
StrpTime(s) ==
    LET f == SplitSlash(s) IN
    IF Len(f) = 3 /\ MonthField(f[1]) /\ DayField(f[2]) /\ YearField(f[3])
    THEN LET y == Number(f[3])
             m == Number(f[1])
             d == Number(f[2])
         IN  IF y >= 1 /\ d <= DaysInMonth(y, m) THEN Some(<<y, m, d>>) ELSE None
    ELSE None

----------------------------------------------------------------------------
(* populate_chart *)

Str_patientname == <<"p","a","t","i","e","n","t","n","a","m","e">>
Str_patient == <<"p","a","t","i","e","n","t">>
Str_name == <<"n","a","m","e">>
Str_dob == <<"d","o","b",":">>
Str_procedures == <<"p","r","o","c","e","d","u","r","e","s">>
Str_lab == <<"l","a","b">>
Str_results == <<"r","e","s","u","l","t","s">>
Str_ekg == <<"e","k","g">>
Str_radiology == <<"r","a","d","i","o","l","o","g","y">>
Str_valid == <<"v","a","l","i","d">>

\* the list of line 75
NameStopWords ==
    {Str_dob, Str_procedures, Str_lab, Str_results, Str_ekg, Str_radiology}

\* ws[n] of Python: positions count from 0
At(ws, n) == ws[n + 1]

\* the reads of ws that raise IndexError
IndexError(ws, reads) == \E n \in reads : n < 0 \/ n >= Len(ws)

\* line 66
combined_text(word) == RemoveSpaces(Lower(word.text))

\* line 67
NameGuard(ws, n) == n + 1 < Len(ws)

\* the positions of ws that the condition of line 69 reads, 'or' and 'and'
\* evaluating their right operand only when needed
NameReads(ws, n) ==
    IF combined_text(At(ws, n)) = Str_patientname THEN {n}
    ELSE IF Lower(At(ws, n).text) = Str_patient THEN {n, n + 1}
    ELSE {n}

\* line 69
NameCond(ws, n) ==
    \/ combined_text(At(ws, n)) = Str_patientname
    \/ /\ Lower(At(ws, n).text) = Str_patient
       /\ StartsWith(Lower(At(ws, n + 1).text), Str_name)

\* NameParts comparing the text with the stop words without lower()
RECURSIVE NamePartsM(_, _)
NamePartsM(ws, j) ==
    IF j >= Len(ws) THEN <<>>
    ELSE IF At(ws, j).text \in NameStopWords THEN <<>>
    ELSE <<At(ws, j).text>> \o NamePartsM(ws, j + 1)

\* lines 72-78: name_parts after the loop over range(j, len(words))
RECURSIVE NameParts(_, _)
NameParts(ws, j) ==
    IF j >= Len(ws) THEN <<>>
    ELSE IF Lower(At(ws, j).text) \in NameStopWords THEN <<>>
    ELSE <<At(ws, j).text>> \o NameParts(ws, j + 1)

\* NameAfter keeping the first name found
NameAfterM(ws, n, old) ==
    IF old = None /\ NameGuard(ws, n) /\ NameCond(ws, n)
    THEN Some(Join(NameParts(ws, n + 2)))
    ELSE old

\* lines 67-82: the value of 'name' after the name check at position n
NameAfter(ws, n, old) ==
    IF NameGuard(ws, n) /\ NameCond(ws, n)
    THEN Some(Join(NameParts(ws, n + 2)))
    ELSE old

\* line 85
DobCond(word) == Lower(Strip(word.text)) = Str_dob

\* DobAfter where a date that does not parse clears dob
DobAfterM(ws, n, old) ==
    IF DobCond(At(ws, n)) /\ n + 1 < Len(ws)
    THEN StrpTime(At(ws, n + 1).text)
    ELSE old

\* lines 85-95: the value of 'dob' after the date check at position n; a
\* ValueError of strptime is caught at line 92 and leaves dob as it was
DobAfter(ws, n, old) ==
    IF DobCond(At(ws, n)) /\ n + 1 < Len(ws)
    THEN LET parsed == StrpTime(At(ws, n + 1).text)
         IN  IF parsed # None THEN parsed ELSE old
    ELSE old

\* EkgGuard off by one
EkgGuardM(ws, n) == n < Len(ws) - 1

\* line 98
EkgGuard(ws, n) == n < Len(ws) - 2

\* the positions of ws that the condition of line 99 reads
EkgReads(ws, n) ==
    IF Lower(At(ws, n).text) # Str_ekg THEN {n}
    ELSE IF n + 1 < Len(ws) /\ Lower(At(ws, n + 1).text) = Str_results
         THEN {n, n + 1, n + 2}
         ELSE {n, n + 1}

\* line 99
EkgCond(ws, n) ==
    /\ Lower(At(ws, n).text) = Str_ekg
    /\ Lower(At(ws, n + 1).text) = Str_results
    /\ Lower(At(ws, n + 2).text) = Str_valid

\* EkgAfter assigning the outcome of the check, so that a later token
\* clears the flag
EkgAfterM(ws, n, old) == EkgGuard(ws, n) /\ EkgCond(ws, n)

\* lines 98-100: the value of 'has_valid_ekg' after the check at position n
EkgAfter(ws, n, old) ==
    IF EkgGuard(ws, n) /\ EkgCond(ws, n) THEN TRUE ELSE old

Scanning == pc = "scan" /\ p >= 1 /\ i < Len(page_to_words[p])
PageDone == pc = "scan" /\ (IF p = 0 THEN TRUE ELSE i = Len(page_to_words[p]))

\* line 62: the outer loop takes the next page
NextPage ==
    /\ PageDone
    /\ p < Len(page_to_words)
    /\ p' = p + 1
    /\ i' = 0
    /\ UNCHANGED <<pc, page_to_words, name, dob, has_valid_ekg, chart, sectionVars, extractVars, sentences, displayVars, ageVars>>

\* lines 64-100: one iteration of the inner loop, on the word at position i.
\* The conditions of lines 69 and 99 are outside any try block: an
\* out-of-range read there ends the function with IndexError.
ScanWord ==
    /\ Scanning
    /\ LET ws == page_to_words[p] IN
       IF NameGuard(ws, i) /\ IndexError(ws, NameReads(ws, i))
       THEN /\ pc' = "raised"
            /\ UNCHANGED <<i, name, dob, has_valid_ekg>>
       ELSE /\ name' = NameAfter(ws, i, name)
            /\ dob' = DobAfter(ws, i, dob)
            /\ IF EkgGuard(ws, i) /\ IndexError(ws, EkgReads(ws, i))
               THEN /\ pc' = "raised"
                    /\ UNCHANGED <<i, has_valid_ekg>>
               ELSE /\ has_valid_ekg' = EkgAfter(ws, i, has_valid_ekg)
                    /\ i' = i + 1
                    /\ pc' = pc
    /\ UNCHANGED <<page_to_words, p, chart, sectionVars, extractVars, sentences, displayVars, ageVars>>

\* lines 102-104
Return ==
    /\ PageDone
    /\ p = Len(page_to_words)
    /\ chart' = Some([name |-> name, dob |-> dob, has_valid_ekg |-> has_valid_ekg])
    /\ pc' = "done"
    /\ UNCHANGED <<page_to_words, p, i, name, dob, has_valid_ekg, sectionVars, extractVars, sentences, displayVars, ageVars>>

NextChart == NextPage \/ ScanWord \/ Return

----------------------------------------------------------------------------
(* extract_sentences_from_pdf *)

\* \w of the regular expression
IsWordChar(c) == IsUpper(c) \/ IsLower(c) \/ IsDigit(c) \/ c = "_"

\* '.' of the regular expression: any character but a line break
AnyChar(c) == c # "\n"

\* (?<!\w\.\w.) at position n: the four characters before n; the last
\* '.' of the pattern is not escaped and stands for any character
Lookbehind1(text, n) ==
    /\ n > 4
    /\ IsWordChar(text[n - 4])
    /\ text[n - 3] = "."
    /\ IsWordChar(text[n - 2])
    /\ AnyChar(text[n - 1])

\* (?<![A-Z][a-z]\.) at position n: the three characters before n
Lookbehind2(text, n) ==
    /\ n > 3
    /\ IsUpper(text[n - 3])
    /\ IsLower(text[n - 2])
    /\ text[n - 1] = "."

\* (?<=\.|\?) at position n
Lookbehind3(text, n) == n > 1 /\ text[n - 1] \in {".", "?"}

RECURSIVE LineBreaks(_, _)
LineBreaks(text, n) ==
    IF n <= Len(text) /\ text[n] = "\n" THEN 1 + LineBreaks(text, n + 1) ELSE 0

\* the length of the match of the pattern of line 153 that starts at the
\* character n of text, 0 when there is none; the first alternative is
\* tried first
MatchLen(text, n) ==
    IF /\ ~Lookbehind1(text, n)
       /\ ~Lookbehind2(text, n)
       /\ Lookbehind3(text, n)
       /\ IsSpace(text[n])
    THEN 1
    ELSE LineBreaks(text, n)

\* re.split: the pieces of text between the matches, from 'start', the
\* search for the next match being at 'n'
RECURSIVE ReSplit(_, _, _)
ReSplit(text, start, n) ==
    IF n > Len(text) THEN <<SubSeq(text, start, Len(text))>>
    ELSE IF MatchLen(text, n) > 0
         THEN <<SubSeq(text, start, n - 1)>>
                 \o ReSplit(text, n + MatchLen(text, n), n + MatchLen(text, n))
         ELSE ReSplit(text, start, n + 1)

\* line 154
RECURSIVE Cleaned(_)
Cleaned(pieces) ==
    IF pieces = <<>> THEN <<>>
    ELSE IF Strip(Head(pieces)) # <<>>
         THEN <<Strip(Head(pieces))>> \o Cleaned(Tail(pieces))
         ELSE Cleaned(Tail(pieces))

\* lines 151-155: one iteration of 'for page in pdf.pages'
ExtractPage ==
    /\ pc = "extract"
    /\ pg < Len(pdf_pages)
    /\ LET text == pdf_pages[pg + 1] IN
         sentences' = (IF text # <<>>
                       THEN sentences \o Cleaned(ReSplit(text, 1, 1))
                       ELSE sentences)
    /\ pg' = pg + 1
    /\ UNCHANGED <<pc, pdf_pages, sectionVars, chartVars, displayVars, ageVars>>

\* line 156
ExtractReturn ==
    /\ pc = "extract"
    /\ pg = Len(pdf_pages)
    /\ pc' = "extract_done"
    /\ UNCHANGED <<pdf_pages, pg, sentences, sectionVars, chartVars, displayVars, ageVars>>

NextExtract == ExtractPage \/ ExtractReturn

----------------------------------------------------------------------------
(* display_sentences *)

\* line 160
bold_titles ==
    { <<"P","a","t","i","e","n","t"," ","N","a","m","e",":">>,
      <<"D","O","B",":">>,
      <<"P","r","o","c","e","d","u","r","e","s">>,
      <<"L","a","b"," ","R","e","s","u","l","t","s">>,
      <<"R","a","d","i","o","l","o","g","y"," ","R","e","s","u","l","t","s">>,
      <<"E","K","G"," ","R","e","s","u","l","t","s">> }

\* str.split(): the runs of characters between whitespace
RECURSIVE Split(_)
Split(t) ==
    IF t = <<>> THEN <<>>
    ELSE IF IsSpace(Head(t)) THEN Split(Tail(t))
    ELSE LET ends == {n \in 1..Len(t) : n = Len(t) \/ IsSpace(t[n + 1])}
             n == CHOOSE n \in ends : \A m \in ends : n <= m
         IN  <<SubSeq(t, 1, n)>> \o Split(SubSeq(t, n + 1, Len(t)))

\* AllPartsBold without the test of is_bold
AllPartsBoldM(title, ws) ==
    \A n \in DOMAIN Split(title) :
        \E m \in DOMAIN ws : ws[m].text = Split(title)[n]

\* line 170
AllPartsBold(title, ws) ==
    \A n \in DOMAIN Split(title) :
        \E m \in DOMAIN ws : ws[m].text = Split(title)[n] /\ is_bold(ws[m])

\* lines 167-170: the title is accepted for the sentence
Accepts(title, sentence, ws) ==
    Contains(sentence, title) /\ AllPartsBold(title, ws)

Displaying == pc = "display" /\ sn < Len(sentences)

\* lines 165-173: the inner loop tries one more title on the sentence; a set
\* is iterated in no specified order, so any untried title may come next
TryTitle ==
    /\ Displaying
    /\ \E title \in untried :
         IF Accepts(title, sentences[sn + 1], extra_words)
         THEN /\ printed' = Append(printed,
                     [number |-> Some(numbered_count), sentence |-> sentences[sn + 1]])
              /\ numbered_count' = numbered_count + 1
              /\ sn' = sn + 1
              /\ untried' = bold_titles
         ELSE /\ untried' = untried \ {title}
              /\ UNCHANGED <<printed, numbered_count, sn>>
    /\ UNCHANGED <<pc, sentences, extra_words, sectionVars, chartVars, extractVars, ageVars>>

\* lines 174-175: the else of the inner loop, after every title was tried
NoTitle ==
    /\ Displaying
    /\ untried = {}
    /\ printed' = Append(printed, [number |-> None, sentence |-> sentences[sn + 1]])
    /\ sn' = sn + 1
    /\ untried' = bold_titles
    /\ UNCHANGED <<pc, numbered_count, sentences, extra_words, sectionVars, chartVars,
                   extractVars, ageVars>>

\* the outer loop ends
DisplayReturn ==
    /\ pc = "display"
    /\ sn = Len(sentences)
    /\ pc' = "display_done"
    /\ UNCHANGED <<sentences, displayVars, sectionVars, chartVars, extractVars, ageVars>>

NextDisplay == TryTitle \/ NoTitle \/ DisplayReturn

----------------------------------------------------------------------------
(* Chart.age *)

\* TupleLess with <= on the last component
TupleLessM(a, b) == a[1] < b[1] \/ (a[1] = b[1] /\ a[2] <= b[2])

\* line 33: (a, b) < (c, d) on tuples
TupleLess(a, b) == a[1] < b[1] \/ (a[1] = b[1] /\ a[2] < b[2])

\* a bool used as an int
BoolInt(b) == IF b THEN 1 ELSE 0

\* lines 32-34; dates are <<year, month, day>>.  Without a date of birth
\* self.dob.year raises AttributeError.
Age ==
    /\ pc = "age"
    /\ IF self_dob = None
       THEN /\ pc' = "age_raised"
            /\ age' = age
       ELSE /\ pc' = "age_done"
            /\ age' = Some(today[1] - self_dob[1][1]
                           - BoolInt(TupleLess(<<today[2], today[3]>>,
                                               <<self_dob[1][2], self_dob[1][3]>>)))
    /\ UNCHANGED <<self_dob, today, sectionVars, chartVars, extractVars, sentences,
                   displayVars>>

NextAge == Age

----------------------------------------------------------------------------
(* The specifications *)

IdleSections ==
    /\ words = <<>>
    /\ k = 0
    /\ sections = <<>>
    /\ current_section = <<>>

IdleExtract ==
    /\ pdf_pages = <<>>
    /\ pg = 0

IdleDisplay ==
    /\ extra_words = <<>>
    /\ sn = 0
    /\ untried = {}
    /\ numbered_count = 1
    /\ printed = <<>>

IdleAge ==
    /\ self_dob = None
    /\ today = <<1, 1, 1>>
    /\ age = None

IdleChart ==
    /\ page_to_words = <<>>
    /\ p = 0
    /\ i = 0
    /\ name = None
    /\ dob = None
    /\ has_valid_ekg = FALSE
    /\ chart = None

InitSections ==
    /\ pc = "split"
    /\ IdleChart
    /\ IdleExtract
    /\ sentences = <<>>
    /\ IdleDisplay
    /\ IdleAge
    /\ words \in BoundedSeq(ExtraWords, MaxWords)
    /\ k = 0
    /\ sections = <<>>
    /\ current_section = <<>>

NextSections == SplitStep \/ SplitReturn

SpecSections == InitSections /\ [][NextSections]_vars

\* the texts of the words of the modelled documents
T_Patient == <<"P","a","t","i","e","n","t">>
T_Name == <<"N","a","m","e",":">>
T_PatientName == <<"P","a","t","i","e","n","t"," ","N","a","m","e">>
T_Jo == <<"J","o">>
T_Al == <<"A","l">>
T_DOB == <<"D","O","B",":">>
T_dob == <<" ","d","o","b",":">>
T_Date1 == <<"1","/","2","/","1","9","8","0">>
T_Date2 == <<"1","2","/","3","1","/","1","9","9","9">>
T_BadDate == <<"2","/","3","0","/","1","9","8","0">>
T_EKG == <<"E","K","G">>
T_ekg == <<"e","k","g">>
T_Results == <<"R","e","s","u","l","t","s">>
T_Valid == <<"V","a","l","i","d">>

NameTexts == {T_Patient, T_Name, T_PatientName, T_Jo, T_Al, T_DOB}
DobTexts == {T_DOB, T_dob, T_Date1, T_Date2, T_BadDate, T_Jo}
EkgTexts == {T_EKG, T_ekg, T_Results, T_Valid, T_Jo}
FieldTexts == {T_Patient, T_Name, T_Jo, T_DOB, T_Date1, T_Date2}
EdgeTexts == {T_Patient, T_DOB, T_EKG, T_Results, T_Jo}

\* TextualWord: only 'text' is read by populate_chart
TextualWords(texts) == [text : texts]

\* the ways to cut n words into at most 'pages' pages: the positions where
\* a page ends, the last page ending at n; no page at all when n = 0
PageEnds(n, pages) ==
    {c \in BoundedSeq(0..n, pages) :
        /\ \A m \in 1..(Len(c) - 1) : c[m] <= c[m + 1]
        /\ IF c = <<>> THEN n = 0 ELSE c[Len(c)] = n}

Paginate(flat, c) ==
    [m \in DOMAIN c |-> SubSeq(flat, (IF m = 1 THEN 0 ELSE c[m - 1]) + 1, c[m])]

\* the documents of at most MaxPages pages and MaxTokens words over 'texts'
InitChart(texts) ==
    /\ pc = "scan"
    /\ IdleSections
    /\ IdleExtract
    /\ sentences = <<>>
    /\ IdleDisplay
    /\ IdleAge
    /\ \E flat \in BoundedSeq(TextualWords(texts), MaxTokens) :
         \E c \in PageEnds(Len(flat), MaxPages) :
            page_to_words = Paginate(flat, c)
    /\ p = 0
    /\ i = 0
    /\ name = None
    /\ dob = None
    /\ has_valid_ekg = FALSE
    /\ chart = None

SpecChartName == InitChart(NameTexts) /\ [][NextChart]_vars
SpecChartDob == InitChart(DobTexts) /\ [][NextChart]_vars
SpecChartEkg == InitChart(EkgTexts) /\ [][NextChart]_vars
SpecChartFields == InitChart(FieldTexts) /\ [][NextChart]_vars
SpecChartEdges == InitChart(EdgeTexts) /\ [][NextChart]_vars

\* the characters of the modelled page texts: an upper-case letter, a
\* lower-case letter, the two sentence ends, a blank and a line break
TextChars == {"D", "r", ".", "?", " ", "\n"}

Example ==
    <<"D","r","."," ","S","m","i","t","h"," ","s","a","w"," ","t","h","e"," ",
      "p","a","t","i","e","n","t","."," ","H","e"," ","i","s"," ","w","e","l",
      "l",".">>

InitExtract ==
    /\ pc = "extract"
    /\ IdleSections
    /\ IdleChart
    /\ IdleDisplay
    /\ IdleAge
    /\ \/ \E flat \in BoundedSeq(TextChars, MaxChars) :
            \E c \in PageEnds(Len(flat), MaxPdfPages) :
               pdf_pages = Paginate(flat, c)
       \/ pdf_pages = <<Example>>
    /\ pg = 0
    /\ sentences = <<>>

SpecExtract == InitExtract /\ [][NextExtract]_vars

\* the sentences and the words of the modelled calls of display_sentences
S_Lab == <<"L","a","b"," ","R","e","s","u","l","t","s">>
S_DobLab == <<"D","O","B",":"," ","L","a","b"," ","R","e","s","u","l","t","s">>
S_lower == <<"l","a","b"," ","r","e","s","u","l","t","s">>
SentenceTexts == {S_Lab, S_DobLab, S_lower}

F_Bold == <<"A","-","B","o","l","d">>
F_Regular == <<"A">>
DisplayWords ==
    { [text |-> <<"L","a","b">>, fontname |-> F_Bold],
      [text |-> <<"L","a","b">>, fontname |-> F_Regular],
      [text |-> <<"R","e","s","u","l","t","s">>, fontname |-> F_Bold],
      [text |-> <<"D","O","B",":">>, fontname |-> F_Bold],
      [text |-> <<"d","o","b",":">>, fontname |-> F_Bold] }

InitDisplay ==
    /\ pc = "display"
    /\ IdleSections
    /\ IdleChart
    /\ IdleExtract
    /\ IdleAge
    /\ sentences \in BoundedSeq(SentenceTexts, MaxSentences)
    /\ extra_words \in BoundedSeq(DisplayWords, MaxExtraWords)
    /\ sn = 0
    /\ untried = bold_titles
    /\ numbered_count = 1
    /\ printed = <<>>

SpecDisplay == InitDisplay /\ [][NextDisplay]_vars

\* the dates of the modelled calls of Chart.age
BirthDates == {<<y, m, d>> : y \in {2000, 2001}, m \in {5, 6, 7}, d \in {13, 14, 15}}
Todays == {<<y, m, d>> : y \in {2001, 2024}, m \in {5, 6, 7}, d \in {13, 14, 15}}

InitAge ==
    /\ pc = "age"
    /\ IdleSections
    /\ IdleChart
    /\ IdleExtract
    /\ sentences = <<>>
    /\ IdleDisplay
    /\ self_dob \in {None} \cup {Some(d) : d \in BirthDates}
    /\ today \in Todays
    /\ age = None

SpecAge == InitAge /\ [][NextAge]_vars

----------------------------------------------------------------------------
(* Properties of split_to_sections *)

RECURSIVE Flatten(_)
Flatten(ss) == IF ss = <<>> THEN <<>> ELSE Head(ss) \o Flatten(Tail(ss))

\* the emphasis rule of the claims, stated on the font name itself
Emphasized(word) ==
    \E n \in 1..Len(word.fontname) - 3 :
        /\ word.fontname[n] = "B"
        /\ word.fontname[n + 1] = "o"
        /\ word.fontname[n + 2] = "l"
        /\ word.fontname[n + 3] = "d"

\* the position in 'words' of the first token of section n
SectionStart(ss, n) == Len(Flatten(SubSeq(ss, 1, n - 1))) + 1

\* C1: concatenating the sections returned by split_to_sections(T), in
\* order, gives back exactly T (and while the loop runs, the closed sections
\* followed by the open one are exactly the tokens consumed so far).
C1_Concatenation ==
    /\ pc = "split" =>
         Flatten(sections) \o current_section = SubSeq(words, 1, k)
    /\ pc = "split_done" => Flatten(sections) = words

C1_Witness ==
    /\ pc = "split_done"
    /\ Len(sections) >= 2
    /\ \E n \in DOMAIN words : Emphasized(words[n])
    /\ \E n \in DOMAIN words : ~Emphasized(words[n])

----------------------------------------------------------------------------
(* Properties of populate_chart.  Positions in a page count from 0, as in  *)
(* the claims; WordText(ws, n) is the text of the token at position n.     *)

WordText(ws, n) == ws[n + 1].text

\* the step of the scan that handles the token at position i of page p
ScansToken == Scanning /\ p' = p /\ (i' = i + 1 \/ pc' = "raised")

\* the name trigger of the claim, at position n of the page ws
NameTrigger(ws, n) ==
    \/ RemoveSpaces(Lower(WordText(ws, n))) = Str_patientname
    \/ /\ Lower(WordText(ws, n)) = Str_patient
       /\ n + 1 < Len(ws)
       /\ StartsWith(Lower(WordText(ws, n + 1)), Str_name)

IsStopWord(t) ==
    Lower(t) \in {Str_dob, Str_procedures, Str_lab, Str_results, Str_ekg,
                  Str_radiology}

\* the position of the first stop word at or after position n + 2, or the
\* length of the page
NameEnd(ws, n) ==
    LET stops == {j \in (n + 2)..(Len(ws) - 1) : IsStopWord(WordText(ws, j))}
    IN  IF stops = {} THEN Len(ws)
        ELSE CHOOSE j \in stops : \A m \in stops : j <= m

\* the tokens of the name of the match at position n
NameTokens(ws, n) ==
    [m \in 1..(IF NameEnd(ws, n) > n + 2 THEN NameEnd(ws, n) - (n + 2) ELSE 0)
        |-> WordText(ws, n + 1 + m)]

\* the texts joined by single spaces
RECURSIVE Spaced(_)
Spaced(ts) ==
    IF Len(ts) = 0 THEN <<>>
    ELSE IF Len(ts) = 1 THEN ts[1]
    ELSE Spaced(SubSeq(ts, 1, Len(ts) - 1)) \o <<" ">> \o ts[Len(ts)]

\* C3 as stated: whenever the name pattern is at position i, the step sets
\* the name to the texts from position i + 2 up to the first stop word.
C3_Original ==
    [][(ScansToken /\ NameTrigger(page_to_words[p], i))
          => name' = Some(Spaced(NameTokens(page_to_words[p], i)))]_vars

\* C3 (amended): whenever the name pattern is at position i and token i is
\* not the last token of its page, the step sets the name to the texts of
\* the tokens from position i + 2 up to, and excluding, the first stop word
\* (or to the end of the page), joined by single spaces; none of these
\* tokens is a stop word.
C3_NameExtraction ==
    [][(ScansToken /\ i + 1 < Len(page_to_words[p])
            /\ NameTrigger(page_to_words[p], i))
          => /\ name' = Some(Spaced(NameTokens(page_to_words[p], i)))
             /\ \A m \in DOMAIN NameTokens(page_to_words[p], i) :
                   ~IsStopWord(NameTokens(page_to_words[p], i)[m])]_vars

\* a name of two tokens was cut at a stop word that is followed by more
C3_Witness ==
    /\ pc = "done"
    /\ \E q \in DOMAIN page_to_words :
         LET ws == page_to_words[q] IN
         /\ Len(ws) >= 4
         /\ NameTrigger(ws, 0)
         /\ Len(NameTokens(ws, 0)) >= 1
         /\ NameEnd(ws, 0) < Len(ws)
         /\ chart[1].name = Some(Spaced(NameTokens(ws, 0)))

\* "ekg", "results", "valid" at positions n, n + 1, n + 2 of the page ws
EkgTriple(ws, n) ==
    /\ n + 2 < Len(ws)
    /\ Lower(WordText(ws, n)) = Str_ekg
    /\ Lower(WordText(ws, n + 1)) = Str_results
    /\ Lower(WordText(ws, n + 2)) = Str_valid

\* the positions the scan has handled: all of the pages before p, and the
\* positions below i of page p
Scanned ==
    {pos \in UNION {{<<q, n>> : n \in 0..(Len(page_to_words[q]) - 1)} :
                       q \in DOMAIN page_to_words} :
        pos[1] < p \/ (pos[1] = p /\ pos[2] < i)}

AllPositions ==
    UNION {{<<q, n>> : n \in 0..(Len(page_to_words[q]) - 1)} :
              q \in DOMAIN page_to_words}

\* C4: the flag is true exactly when a triple "ekg", "results", "valid" lies
\* on one page: during the scan it is true exactly when such a triple starts
\* at a position already handled (so it is never reset), and the returned
\* Chart has it true exactly when some page holds a triple.
C4_EkgFlag ==
    /\ pc \in {"scan", "done"} =>
          (has_valid_ekg <=>
              \E pos \in Scanned : EkgTriple(page_to_words[pos[1]], pos[2]))
    /\ pc = "done" =>
          (chart[1].has_valid_ekg <=>
              \E pos \in AllPositions : EkgTriple(page_to_words[pos[1]], pos[2]))

\* the flag was set and tokens were scanned after the triple
C4_Witness ==
    /\ pc = "done"
    /\ chart[1].has_valid_ekg
    /\ \E pos \in AllPositions :
          /\ EkgTriple(page_to_words[pos[1]], pos[2])
          /\ \E later \in AllPositions :
                later[1] > pos[1] \/ (later[1] = pos[1] /\ later[2] > pos[2] + 2)

\* "dob:" at position n of ws, followed by a token
DobTrigger(ws, n) ==
    /\ Lower(Strip(WordText(ws, n))) = Str_dob
    /\ n + 1 < Len(ws)

\* C5: the step at a "dob:" token whose next token does not parse raises
\* nothing, leaves dob as it was and moves on to the next token.
C5_BadDate ==
    [][(ScansToken /\ DobTrigger(page_to_words[p], i)
            /\ StrpTime(WordText(page_to_words[p], i + 1)) = None)
          => (pc' = "scan" /\ dob' = dob /\ i' = i + 1)]_vars

\* an unparsable date came after a parsed one, which was kept
C5_Witness ==
    /\ pc = "done"
    /\ chart[1].dob # None
    /\ \E pos \in AllPositions, bad \in AllPositions :
          /\ pos[1] < bad[1] \/ (pos[1] = bad[1] /\ pos[2] < bad[2])
          /\ DobTrigger(page_to_words[pos[1]], pos[2])
          /\ StrpTime(WordText(page_to_words[pos[1]], pos[2] + 1)) = chart[1].dob
          /\ DobTrigger(page_to_words[bad[1]], bad[2])
          /\ StrpTime(WordText(page_to_words[bad[1]], bad[2] + 1)) = None

\* scan order: pages in order, positions in order within a page
Before(a, b) == a[1] < b[1] \/ (a[1] = b[1] /\ a[2] <= b[2])
Last(S) == CHOOSE a \in S : \A b \in S : Before(b, a)

NameMatches ==
    {pos \in AllPositions :
        /\ pos[2] + 1 < Len(page_to_words[pos[1]])
        /\ NameTrigger(page_to_words[pos[1]], pos[2])}

DobMatches ==
    {pos \in AllPositions :
        /\ DobTrigger(page_to_words[pos[1]], pos[2])
        /\ StrpTime(WordText(page_to_words[pos[1]], pos[2] + 1)) # None}

NameOf(pos) == Some(Spaced(NameTokens(page_to_words[pos[1]], pos[2])))
DobOf(pos) == StrpTime(WordText(page_to_words[pos[1]], pos[2] + 1))

\* C6: the returned name is that of the last name match in scan order and
\* the returned date of birth that of the last date that parsed; a field
\* without a match is None.
C6_LastMatchWins ==
    pc = "done" =>
        /\ chart[1].name =
              (IF NameMatches = {} THEN None ELSE NameOf(Last(NameMatches)))
        /\ chart[1].dob =
              (IF DobMatches = {} THEN None ELSE DobOf(Last(DobMatches)))

\* two matches of one field with different values
C6_Witness ==
    /\ pc = "done"
    /\ \/ \E a \in NameMatches, b \in NameMatches : NameOf(a) # NameOf(b)
       \/ \E a \in DobMatches, b \in DobMatches : DobOf(a) # DobOf(b)

\* C10: populate_chart never raises, the loop positions stay inside the
\* document, and every state of the scan has a next step until the Chart
\* is returned.
C10_NoIndexError ==
    /\ pc \in {"scan", "done"}
    /\ p <= Len(page_to_words)
    /\ p >= 1 => i <= Len(page_to_words[p])
    /\ pc = "scan" => ENABLED NextChart
    /\ pc = "done" => chart # None /\ p = Len(page_to_words)

\* each window check met a trigger token too close to the end of a page
C10_Witness ==
    /\ pc = "done"
    /\ \E q \in DOMAIN page_to_words :
          LET ws == page_to_words[q] IN
          Len(ws) >= 1 /\ Lower(WordText(ws, Len(ws) - 1)) = Str_patient
    /\ \E q \in DOMAIN page_to_words :
          LET ws == page_to_words[q] IN
          /\ Len(ws) >= 2
          /\ Lower(WordText(ws, Len(ws) - 2)) = Str_ekg
          /\ Lower(WordText(ws, Len(ws) - 1)) = Str_results

----------------------------------------------------------------------------
(* Properties of extract_sentences_from_pdf *)

\* the whitespace at character n follows a period that ends an abbreviation:
\* upper-case letter, lower-case letter, period ("Dr."), or word character,
\* period, word character, period ("U.S.")
AfterAbbreviation(text, n) ==
    /\ n > 1
    /\ text[n - 1] = "."
    /\ \/ n > 3 /\ IsUpper(text[n - 3]) /\ IsLower(text[n - 2])
       \/ /\ n > 4
          /\ IsWordChar(text[n - 4])
          /\ text[n - 3] = "."
          /\ IsWordChar(text[n - 2])

\* the segmenter of the claim splits at the character n of text
SplitsAt(text, n) ==
    \/ text[n] = "\n"
    \/ /\ IsSpace(text[n])
       /\ n > 1
       /\ text[n - 1] \in {".", "?"}
       /\ ~AfterAbbreviation(text, n)

\* the pieces of text between the characters where the claim splits
RECURSIVE Pieces(_, _, _)
Pieces(text, start, n) ==
    IF n > Len(text) THEN <<SubSeq(text, start, Len(text))>>
    ELSE IF SplitsAt(text, n)
         THEN <<SubSeq(text, start, n - 1)>> \o Pieces(text, n + 1, n + 1)
         ELSE Pieces(text, start, n + 1)

Trimmed(t) == t # <<>> /\ ~IsSpace(t[1]) /\ ~IsSpace(t[Len(t)])

NonEmptyTrimmed(pieces) ==
    LET keep == {n \in DOMAIN pieces : \E m \in DOMAIN pieces[n] : ~IsSpace(pieces[n][m])}
        nth(j) == CHOOSE n \in keep : Cardinality({m \in keep : m < n}) = j - 1
    IN  [j \in 1..Cardinality(keep) |-> Strip(pieces[nth(j)])]

RECURSIVE SentencesOf(_)
SentencesOf(pages) ==
    IF pages = <<>> THEN <<>>
    ELSE NonEmptyTrimmed(Pieces(Head(pages), 1, 1)) \o SentencesOf(Tail(pages))

\* C8 as stated: the sentences are the trimmed, non-empty pieces between
\* line breaks and the whitespace that follows a '.' or a '?', except the
\* whitespace after the period of an abbreviation; the example text gives
\* exactly its two sentences.
C8_Original ==
    pc = "extract_done" =>
        /\ \A n \in DOMAIN sentences : Trimmed(sentences[n])
        /\ sentences = SentencesOf(pdf_pages)
        /\ pdf_pages = <<Example>> =>
              sentences = <<SubSeq(Example, 1, 26), SubSeq(Example, 28, 38)>>

----------------------------------------------------------------------------
(* Properties of display_sentences *)

\* the words of a title: the title cut at its blanks
TitleWords(title) ==
    LET blanks == {n \in DOMAIN title : title[n] = " "} IN
    IF blanks = {} THEN {title}
    ELSE LET b == CHOOSE n \in blanks : TRUE
         IN  {SubSeq(title, 1, b - 1), SubSeq(title, b + 1, Len(title))}

Substring(t, sub) ==
    \E n \in 1..(Len(t) - Len(sub) + 1) :
        \A m \in 1..Len(sub) : t[n + m - 1] = sub[m]

\* some recognized title is in the sentence and each of its words is the
\* text of an emphasized word of the document
Corroborated(sentence) ==
    \E title \in bold_titles :
        /\ Substring(sentence, title)
        /\ \A w \in TitleWords(title) :
              \E n \in DOMAIN extra_words :
                  extra_words[n].text = w /\ Emphasized(extra_words[n])

\* C7: whatever order the titles are tried in, each sentence is printed
\* once, in input order, with a number exactly when some title is in it and
\* all the words of that title are texts of emphasized words.
C7_Display ==
    /\ pc \in {"display", "display_done"} =>
          /\ Len(printed) = sn
          /\ \A n \in 1..sn :
                /\ printed[n].sentence = sentences[n]
                /\ printed[n].number # None <=> Corroborated(sentences[n])
    /\ pc = "display_done" => sn = Len(sentences)

\* a sentence with two titles, one of them corroborated, got a number and
\* the sentence after it, with no title, got none
C7_Witness ==
    /\ pc = "display_done"
    /\ Len(sentences) = 2
    /\ sentences[1] = S_DobLab
    /\ \A n \in DOMAIN extra_words : extra_words[n].text # <<"L","a","b">>
    /\ printed[1].number = Some(1)
    /\ printed[2].number = None

----------------------------------------------------------------------------
(* Properties of Chart.age *)

\* the birthdays completed at the date t by someone born at the date b: the
\* years after the birth year whose anniversary is not after t
Birthdays(b, t) ==
    Cardinality({y \in (b[1] + 1)..t[1] :
                    \/ y < t[1]
                    \/ b[2] < t[2]
                    \/ (b[2] = t[2] /\ b[3] <= t[3])})

\* C9: with a date of birth, age is the reference year minus the birth
\* year, minus one exactly when (month, day) of the reference date precedes
\* (month, day) of the birth date; for a birth date not after the reference
\* date this is the number of completed birthdays.  Reference 2024-06-14:
\* born 2000-06-15 gives 23, born 2000-06-14 gives 24.
C9_Age ==
    pc = "age_done" =>
        LET b == self_dob[1]
            t == today
        IN  /\ age = Some(t[1] - b[1]
                          - (IF t[2] < b[2] \/ (t[2] = b[2] /\ t[3] < b[3])
                             THEN 1 ELSE 0))
            /\ b[1] <= t[1] /\ age[1] >= 0 => age[1] = Birthdays(b, t)
            /\ (t = <<2024, 6, 14>> /\ b = <<2000, 6, 15>>) => age = Some(23)
            /\ (t = <<2024, 6, 14>> /\ b = <<2000, 6, 14>>) => age = Some(24)

C9_Witness ==
    /\ pc = "age_done"
    /\ today = <<2024, 6, 14>>
    /\ self_dob = Some(<<2000, 6, 15>>)
    /\ age = Some(23)

====
